---------------------------- MODULE Spec2Model ----------------------------
(***************************************************************************)
(* Model of examples/plotting/plot_h5md.py (HALMD): the block-average      *)
(* reducer compute_average and the driver main().                          *)
(*                                                                         *)
(* Numbers.  Array elements and results are exact rationals <<n, d>> in    *)
(* lowest terms with d > 0; <<0, 0>> is NaN (0/0).  The error estimate     *)
(* err = std(...) / sqrt(nblocks - 1) is carried as its square err2, which *)
(* identifies err because err >= 0.  Sample values are small integers, for *)
(* which the sums taken by numpy's mean are exact.                         *)
(***************************************************************************)
EXTENDS Integers, Sequences, FiniteSets, TLC

(***************************************************************************)
(* Bounds of the model.                                                    *)
(***************************************************************************)
\* longest sample sequence handed to compute_average by SpecAvg
MaxLen == 5
\* largest block count tried by SpecAvg
MaxB == 4
\* largest sample value tried by SpecAvg (values are 0..MaxVal)
MaxVal == 2
\* largest number of recorded samples in the input file
MaxN == 12
\* number of runs of the script in SpecRuns
MaxRuns == 2

(***************************************************************************)
(* Program constants.                                                      *)
(***************************************************************************)
\* def compute_average(data, label, nblocks = 10)
DefaultNBlocks == 10
\* linspace(min(x), max(x), num=50)
OverlayPoints == 50

(***************************************************************************)
(* Exact rational arithmetic (the float64 values of the arrays).           *)
(***************************************************************************)
NaN == <<0, 0>>

Abs(i) == IF i < 0 THEN -i ELSE i

RECURSIVE GCD(_, _)
GCD(a, b) == IF b = 0 THEN a ELSE GCD(b, a % b)

\* n/d in lowest terms; x/0 is NaN (the only division by zero the program
\* performs is 0.0/0.0)
Norm(n, d) ==
    IF d = 0 THEN NaN
    ELSE LET g == GCD(Abs(n), Abs(d))
             s == IF d < 0 THEN -1 ELSE 1
         IN  <<(s * n) \div g, (s * d) \div g>>

IsNaN(a) == a[2] = 0

ToFloat(i) == <<i, 1>>

RAdd(a, b) == IF IsNaN(a) \/ IsNaN(b) THEN NaN
              ELSE Norm(a[1] * b[2] + b[1] * a[2], a[2] * b[2])

RSub(a, b) == IF IsNaN(a) \/ IsNaN(b) THEN NaN
              ELSE Norm(a[1] * b[2] - b[1] * a[2], a[2] * b[2])

RMul(a, b) == IF IsNaN(a) \/ IsNaN(b) THEN NaN
              ELSE Norm(a[1] * b[1], a[2] * b[2])

RDivInt(a, k) == IF IsNaN(a) THEN NaN ELSE Norm(a[1], a[2] * k)

RLess(a, b) == a[1] * b[2] < b[1] * a[2]

RECURSIVE RSum(_)
RSum(s) == IF s = <<>> THEN ToFloat(0) ELSE RAdd(Head(s), RSum(Tail(s)))

(***************************************************************************)
(* Python and numpy primitives.                                            *)
(***************************************************************************)
\* a slice bound as Python resolves it against a sequence of length n:
\* a negative bound counts from the end, and every bound is clamped to 0..n
ClampIndex(i, n) ==
    LET j == IF i < 0 THEN i + n ELSE i
    IN  IF j < 0 THEN 0 ELSE IF j > n THEN n ELSE j

\* seq[start:stop] (0-based, stop exclusive); never raises
Slice(seq, start, stop) ==
    LET a == ClampIndex(start, Len(seq))
        b == ClampIndex(stop, Len(seq))
    IN  IF a < b THEN SubSeq(seq, a + 1, b) ELSE <<>>

\* reshape(flat, (rows, -1)) for Len(flat) a multiple of rows
Reshape(flat, rows) ==
    LET w == Len(flat) \div rows
    IN  [r \in 1..rows |-> SubSeq(flat, (r - 1) * w + 1, r * w)]

RECURSIVE Flatten(_)
Flatten(m) == IF m = <<>> THEN <<>> ELSE Head(m) \o Flatten(Tail(m))

MeanOffByOne(a) == IF a = <<>> THEN NaN ELSE RDivInt(RSum(a), Len(a) + 1)

\* numpy.mean of a flat array; the mean of an empty array is 0.0/0 = nan
Mean(a) == RDivInt(RSum(a), Len(a))

\* numpy.mean(data, axis=1)
MeanAxis1(m) == [r \in 1..Len(m) |-> Mean(m[r])]

\* the square of numpy.std(a): mean(abs(a - mean(a))**2)
Std2(a) ==
    LET mu == Mean(a)
    IN  Mean([i \in 1..Len(a) |-> RMul(RSub(a[i], mu), RSub(a[i], mu))])

(***************************************************************************)
(* compute_average(data, label, nblocks)                                   *)
(***************************************************************************)
GroupKeepTail(data, nblocks) ==
    LET keep == nblocks * (Len(data) \div nblocks)
    IN  Reshape(SubSeq(data, Len(data) - keep + 1, Len(data)), nblocks)

\* reshape(data[:(nblocks * (data.shape[0] / nblocks))], (nblocks, -1))
GroupInBlocks(data, nblocks) ==
    Reshape(Slice(data, 0, nblocks * (Len(data) \div nblocks)), nblocks)

\* the (avg, err) pair returned, err as its square
compute_average(data, nblocks) ==
    LET blocks == GroupInBlocks(data, nblocks)
    IN  [avg  |-> Mean(Flatten(blocks)),
         err2 |-> RDivInt(Std2(MeanAxis1(blocks)), nblocks - 1)]


(***************************************************************************)
(* State.                                                                  *)
(*   env         the files: the input file (which key it lacks, how many   *)
(*               samples its datasets hold, their values) and whether the  *)
(*               dump path can be opened for writing                       *)
(*   args        the parsed command line of the current run                *)
(*   range       main's local `range`                                      *)
(*   pc          the statement main() executes next; "showing" is blocked  *)
(*               inside show(); "done" and "aborted" are the two ends      *)
(*   h5open      the h5py.File handle H5 is open                           *)
(*   dumpOpen    the dump file object f is open                            *)
(*   stdout      the lines printed by the current run                      *)
(*   plotCalls   the pylab calls made by the current run                   *)
(*   dumpFile    the file at the --dump path                               *)
(*   dumpAtStart dumpFile as the current run found it                      *)
(*   steps       the steps the current run has completed, in order         *)
(*   failedAt    the step that raised, "" if none                          *)
(*   epot, x, y  main's locals                                             *)
(*   log         the finished earlier runs                                 *)
(*   rdata, rB, rdone, rfull, rcut                                         *)
(*               a direct call of compute_average: its arguments and the   *)
(*               results for the full and for the pre-truncated sequence   *)
(***************************************************************************)
VARIABLES env, args, range, pc, h5open, dumpOpen, stdout, plotCalls,
          dumpFile, dumpAtStart, steps, failedAt, epot, x, y, log,
          rdata, rB, rdone, rfull, rcut

driverVars == <<env, args, range, pc, h5open, dumpOpen, stdout, plotCalls,
                dumpFile, dumpAtStart, steps, failedAt, epot, x, y, log>>
reducerVars == <<rdata, rB, rdone, rfull, rcut>>
vars == <<driverVars, reducerVars>>

(***************************************************************************)
(* The input file and the command line.                                    *)
(***************************************************************************)
\* what the input lacks: the file itself, a group, an attribute, a dataset
Missing == {"none", "file", "param", "cutoff", "TEMP", "PRESS", "EPOT", "TIME"}

Shapes == {"flat", "ramp"}

\* the value of sample i (1-based) of a dataset
Sample(name, shape, i) ==
    CASE name = "TIME"  -> i
      [] name = "TEMP"  -> IF shape = "flat" THEN 2 ELSE 1 + (i % 2)
      [] name = "PRESS" -> IF shape = "flat" THEN 1 ELSE i % 3
      [] name = "EPOT"  -> IF shape = "flat" THEN -2 ELSE ((i * i) % 5) - 4

\* array(H5[name])
Dataset(name, e) == [i \in 1..e.N |-> ToFloat(Sample(name, e.shape, i))]

\* a token of text written to a file: a piece of text, a line break, or a
\* row of numbers as savetxt formats it
Text(s) == [tok |-> s, row |-> <<>>]
NL == Text("\n")
Row(t, e) == [tok |-> "row", row |-> <<t, e>>]
Header == Text("# time   E_pot(t)")

OldContent == <<Text("# old"), NL>>

FileAbsent == [exists |-> FALSE, content |-> <<>>]
FileWith(c) == [exists |-> TRUE, content |-> c]

Envs ==
    { e \in [missing : Missing, N : 0..MaxN, shape : Shapes, writable : BOOLEAN] :
        /\ e.missing # "none" => (e.N = MaxN /\ e.shape = "ramp")
        /\ ~e.writable => e.shape = "ramp" }

\* the values tried for --range START END; <<>> is "--range not given"
Starts == {0, 1, MaxN + 2}
Ends == {-1, 3, MaxN - 1, MaxN + 2}
Ranges == {<<>>} \cup {<<s, e>> : s \in Starts, e \in Ends}

Args == [range : Ranges, dump : BOOLEAN, noPlot : BOOLEAN]

\* range = args.range or [0, -1]
EvalRange(a) == IF a.range = <<>> THEN <<0, -1>> ELSE a.range

PlottingAlways(a) == TRUE

\* `if not args.no_plot:`
Plotting(a) == ~a.noPlot

\* array(H5[name])[range[0]:range[1]]
Selected(name) == Slice(Dataset(name, env), range[1], range[2])

(***************************************************************************)
(* File and print primitives.                                              *)
(***************************************************************************)
PrintBare(s) == <<s>>

\* print >>f, s : the text, then a line break
PrintTo(s) == <<s, NL>>

\* savetxt(f, array((x, y)).T) : one row per sample, each ended by a line break
RECURSIVE SaveTxt(_, _)
SaveTxt(xs, ys) ==
    IF xs = <<>> THEN <<>>
    ELSE <<Row(Head(xs), Head(ys)), NL>> \o SaveTxt(Tail(xs), Tail(ys))

OpenForWrite(f) == FileWith(<<>>)

\* open(args.dump, 'a') : creates the file if absent, keeps what it holds
OpenForAppend(f) == FileWith(f.content)

\* a line of standard output: its label and the numbers formatted into it
Line(label, vals) == [label |-> label, vals |-> vals]

MetadataLines == <<Line("Particles", <<>>), Line("Force cutoff", <<>>),
                   Line("Box size", <<>>), Line("Density", <<>>)>>

PlotCall(op, xs, ys) == [op |-> op, x |-> xs, y |-> ys]

RECURSIVE SeqMin(_)
SeqMin(s) == IF Len(s) = 1 THEN s[1]
             ELSE LET m == SeqMin(Tail(s)) IN IF RLess(s[1], m) THEN s[1] ELSE m

RECURSIVE SeqMax(_)
SeqMax(s) == IF Len(s) = 1 THEN s[1]
             ELSE LET m == SeqMax(Tail(s)) IN IF RLess(m, s[1]) THEN s[1] ELSE m

\* linspace(lo, hi, num)
Linspace(lo, hi, num) ==
    [i \in 1..num |-> RAdd(lo, RDivInt(RMul(ToFloat(i - 1), RSub(hi, lo)), num - 1))]

(***************************************************************************)
(* main(): one action per statement group, in source order.                *)
(***************************************************************************)
\* an uncaught exception unwinds main(): nothing after the raising statement
\* runs, and H5.close() on the last line is among what is skipped
Raise(step) ==
    /\ pc' = "aborted"
    /\ failedAt' = step

Completed(step) == steps' = Append(steps, step)

\* where main() continues after the dump block
AfterDump == IF Plotting(args) THEN "overlay" ELSE "close"

\* H5 = h5py.File(args.input, 'r')
OpenInput ==
    /\ pc = "open"
    /\ IF env.missing = "file"
       THEN /\ Raise("open")
            /\ UNCHANGED <<h5open, steps>>
       ELSE /\ h5open' = TRUE
            /\ pc' = "meta"
            /\ Completed("open")
            /\ UNCHANGED failedAt
    /\ UNCHANGED <<env, args, range, dumpOpen, stdout, plotCalls, dumpFile,
                   dumpAtStart, epot, x, y, log, reducerVars>>

\* H5param = H5["param"] and the four metadata lines
PrintMetadata ==
    /\ pc = "meta"
    /\ CASE env.missing = "param" ->
              /\ Raise("meta")
              /\ UNCHANGED <<stdout, steps>>
         [] env.missing = "cutoff" ->
              /\ stdout' = stdout \o SubSeq(MetadataLines, 1, 1)
              /\ Raise("meta")
              /\ UNCHANGED steps
         [] OTHER ->
              /\ stdout' = stdout \o MetadataLines
              /\ pc' = "temp"
              /\ Completed("meta")
              /\ UNCHANGED failedAt
    /\ UNCHANGED <<env, args, range, h5open, dumpOpen, plotCalls, dumpFile,
                   dumpAtStart, epot, x, y, log, reducerVars>>

ReduceIgnoringErrors(key, label, step, next) ==
    /\ pc = step
    /\ IF env.missing = key
       THEN /\ pc' = next
            /\ failedAt' = step
            /\ UNCHANGED <<stdout, steps, epot>>
       ELSE LET r == compute_average(Selected(key), DefaultNBlocks)
            IN  /\ stdout' = Append(stdout, Line(label, <<r.avg, r.err2>>))
                /\ epot' = IF key = "EPOT" THEN r.avg ELSE epot
                /\ pc' = next
                /\ Completed(step)
                /\ UNCHANGED failedAt
    /\ UNCHANGED <<env, args, range, h5open, dumpOpen, plotCalls, dumpFile,
                   dumpAtStart, x, y, log, reducerVars>>

\* v, v_err = compute_average(array(H5[key])[range[0]:range[1]], label)
Reduce(key, label, step, next) ==
    /\ pc = step
    /\ IF env.missing = key
       THEN /\ Raise(step)
            /\ UNCHANGED <<stdout, steps, epot>>
       ELSE LET r == compute_average(Selected(key), DefaultNBlocks)
            IN  /\ stdout' = Append(stdout, Line(label, <<r.avg, r.err2>>))
                /\ epot' = IF key = "EPOT" THEN r.avg ELSE epot
                /\ pc' = next
                /\ Completed(step)
                /\ UNCHANGED failedAt
    /\ UNCHANGED <<env, args, range, h5open, dumpOpen, plotCalls, dumpFile,
                   dumpAtStart, x, y, log, reducerVars>>

ReduceTemp == Reduce("TEMP", "Temperature", "temp", "press")

ReducePress == Reduce("PRESS", "Pressure", "press", "epot")

ReduceEpot == Reduce("EPOT", "Potential energy", "epot", "series")

\* x, y = the selected TIME and EPOT samples; plot(x, y, '-b', ...)
PlotSeries ==
    /\ pc = "series"
    /\ IF env.missing = "TIME"
       THEN /\ Raise("plot")
            /\ UNCHANGED <<x, y, plotCalls, steps>>
       ELSE /\ x' = Selected("TIME")
            /\ y' = Selected("EPOT")
            /\ IF Plotting(args)
               THEN /\ plotCalls' = Append(plotCalls, PlotCall("plot", x', y'))
                    /\ Completed("plot")
               ELSE UNCHANGED <<plotCalls, steps>>
            /\ pc' = IF args.dump THEN "dump_open" ELSE AfterDump
            /\ UNCHANGED failedAt
    /\ UNCHANGED <<env, args, range, h5open, dumpOpen, stdout, dumpFile,
                   dumpAtStart, epot, log, reducerVars>>

\* f = open(args.dump, 'a')
OpenDump ==
    /\ pc = "dump_open"
    /\ IF env.writable
       THEN /\ dumpFile' = OpenForAppend(dumpFile)
            /\ dumpOpen' = TRUE
            /\ pc' = "dump_write"
            /\ UNCHANGED failedAt
       ELSE /\ Raise("dump")
            /\ UNCHANGED <<dumpFile, dumpOpen>>
    /\ UNCHANGED <<env, args, range, h5open, stdout, plotCalls, dumpAtStart,
                   steps, epot, x, y, log, reducerVars>>

\* print >>f, '# time   E_pot(t)'; savetxt(f, array((x, y)).T); print >>f, '\n'
WriteDump ==
    /\ pc = "dump_write"
    /\ dumpFile' = [dumpFile EXCEPT !.content =
                       @ \o PrintTo(Header) \o SaveTxt(x, y) \o PrintTo(NL)]
    /\ pc' = "dump_close"
    /\ Completed("dump")
    /\ UNCHANGED <<env, args, range, h5open, dumpOpen, stdout, plotCalls,
                   dumpAtStart, failedAt, epot, x, y, log, reducerVars>>

\* f.close()
CloseDump ==
    /\ pc = "dump_close"
    /\ dumpOpen' = FALSE
    /\ pc' = AfterDump
    /\ UNCHANGED <<env, args, range, h5open, stdout, plotCalls, dumpFile,
                   dumpAtStart, steps, failedAt, epot, x, y, log, reducerVars>>

\* x = linspace(min(x), max(x), num=50); y = zeros_like(x) + epot; plot(x, y, ':k')
\* min() of an empty array raises ValueError
PlotMean ==
    /\ pc = "overlay"
    /\ IF x = <<>>
       THEN /\ Raise("overlay")
            /\ UNCHANGED <<x, y, plotCalls, steps>>
       ELSE /\ x' = Linspace(SeqMin(x), SeqMax(x), OverlayPoints)
            /\ y' = [i \in 1..OverlayPoints |-> RAdd(ToFloat(0), epot)]
            /\ plotCalls' = Append(plotCalls, PlotCall("plot", x', y'))
            /\ pc' = "finalise"
            /\ Completed("overlay")
            /\ UNCHANGED failedAt
    /\ UNCHANGED <<env, args, range, h5open, dumpOpen, stdout, dumpFile,
                   dumpAtStart, epot, log, reducerVars>>

\* axis('tight'); xlabel(...); ylabel(...); legend(...); show() is entered
Show ==
    /\ pc = "finalise"
    /\ plotCalls' = plotCalls \o
           <<PlotCall("axis", <<>>, <<>>), PlotCall("xlabel", <<>>, <<>>),
             PlotCall("ylabel", <<>>, <<>>), PlotCall("legend", <<>>, <<>>),
             PlotCall("show", <<>>, <<>>)>>
    /\ pc' = "showing"
    /\ UNCHANGED <<env, args, range, h5open, dumpOpen, stdout, dumpFile,
                   dumpAtStart, steps, failedAt, epot, x, y, log, reducerVars>>

\* show() returns when the user closes the viewer
ShowReturns ==
    /\ pc = "showing"
    /\ pc' = "close"
    /\ Completed("show")
    /\ UNCHANGED <<env, args, range, h5open, dumpOpen, stdout, plotCalls,
                   dumpFile, dumpAtStart, failedAt, epot, x, y, log, reducerVars>>

\* H5.close(); main() returns and its locals die
CloseInput ==
    /\ pc = "close"
    /\ h5open' = FALSE
    /\ pc' = "done"
    /\ Completed("close")
    /\ x' = <<>>
    /\ y' = <<>>
    /\ UNCHANGED <<env, args, range, dumpOpen, stdout, plotCalls, dumpFile,
                   dumpAtStart, failedAt, epot, log, reducerVars>>

(***************************************************************************)
(* One run of the script.                                                  *)
(***************************************************************************)
NoResult == [avg |-> NaN, err2 |-> NaN]

IdleReducer ==
    /\ rdata = <<>>
    /\ rB = DefaultNBlocks
    /\ rdone = {}
    /\ rfull = NoResult
    /\ rcut = NoResult

\* the process as it enters main() with the command line a
Start(a) ==
    /\ args = a
    /\ range = EvalRange(a)
    /\ pc = "open"
    /\ h5open = FALSE
    /\ dumpOpen = FALSE
    /\ stdout = <<>>
    /\ plotCalls = <<>>
    /\ steps = <<>>
    /\ failedAt = ""
    /\ epot = NaN
    /\ x = <<>>
    /\ y = <<>>

Init ==
    /\ env \in Envs
    /\ \E a \in Args : Start(a)
    /\ dumpFile \in {FileAbsent, FileWith(OldContent)}
    /\ dumpAtStart = dumpFile
    /\ log = <<>>
    /\ IdleReducer

Next ==
    \/ OpenInput
    \/ PrintMetadata
    \/ ReduceTemp
    \/ ReducePress
    \/ ReduceEpot
    \/ PlotSeries
    \/ OpenDump
    \/ WriteDump
    \/ CloseDump
    \/ PlotMean
    \/ Show
    \/ ShowReturns
    \/ CloseInput

Spec == Init /\ [][Next]_vars

(***************************************************************************)
(* Several runs of the script, one after the other, on the same files.     *)
(***************************************************************************)
Ended == pc \in {"done", "aborted"}

\* what the current run has added to the dump file
Segment == SubSeq(dumpFile.content, Len(dumpAtStart.content) + 1,
                  Len(dumpFile.content))

RECURSIVE Ops(_)
Ops(calls) == IF calls = <<>> THEN <<>> ELSE <<Head(calls).op>> \o Ops(Tail(calls))

\* the record of the current run
Record == [args |-> args, outcome |-> pc, stdout |-> stdout,
           plotOps |-> Ops(plotCalls), segment |-> Segment,
           before |-> dumpAtStart.content, after |-> dumpFile.content]

RunEnvs == {e \in Envs : e.shape = "ramp" /\ e.N \in {0, DefaultNBlocks, MaxN}}

RunArgs == {a \in Args : a.range \in {<<>>, <<1, MaxN - 1>>, <<MaxN + 2, MaxN + 2>>}}

\* the process ends (the operating system closes what it left open) and the
\* script is started again
NewRun ==
    /\ Ended
    /\ Len(log) + 1 < MaxRuns
    /\ log' = Append(log, Record)
    /\ \E a \in RunArgs :
         /\ args' = a
         /\ range' = EvalRange(a)
    /\ pc' = "open"
    /\ h5open' = FALSE
    /\ dumpOpen' = FALSE
    /\ stdout' = <<>>
    /\ plotCalls' = <<>>
    /\ steps' = <<>>
    /\ failedAt' = ""
    /\ epot' = NaN
    /\ x' = <<>>
    /\ y' = <<>>
    /\ dumpAtStart' = dumpFile
    /\ UNCHANGED <<env, dumpFile, reducerVars>>

InitRuns ==
    /\ env \in RunEnvs
    /\ \E a \in RunArgs : Start(a)
    /\ dumpFile \in {FileAbsent, FileWith(OldContent)}
    /\ dumpAtStart = dumpFile
    /\ log = <<>>
    /\ IdleReducer

NextRuns ==
    \/ OpenInput
    \/ PrintMetadata
    \/ ReduceTemp
    \/ ReducePress
    \/ ReduceEpot
    \/ PlotSeries
    \/ OpenDump
    \/ WriteDump
    \/ CloseDump
    \/ PlotMean
    \/ Show
    \/ ShowReturns
    \/ CloseInput
    \/ NewRun

SpecRuns == InitRuns /\ [][NextRuns]_vars

(***************************************************************************)
(* compute_average called directly, on every short sequence.               *)
(***************************************************************************)
RECURSIVE SeqsUpTo(_, _)
SeqsUpTo(S, n) ==
    IF n = 0 THEN {<<>>}
    ELSE LET shorter == SeqsUpTo(S, n - 1)
         IN  shorter \cup {Append(q, v) : q \in {r \in shorter : Len(r) = n - 1}, v \in S}

Floats(s) == [i \in 1..Len(s) |-> ToFloat(s[i])]

\* the sequence cut to its first floor(N/B)*B samples
Truncated(s, b) == SubSeq(s, 1, (Len(s) \div b) * b)

IdleDriver ==
    /\ env = [missing |-> "file", N |-> 0, shape |-> "flat", writable |-> FALSE]
    /\ args = [range |-> <<>>, dump |-> FALSE, noPlot |-> TRUE]
    /\ range = <<0, -1>>
    /\ pc = "idle"
    /\ h5open = FALSE
    /\ dumpOpen = FALSE
    /\ stdout = <<>>
    /\ plotCalls = <<>>
    /\ dumpFile = FileAbsent
    /\ dumpAtStart = FileAbsent
    /\ steps = <<>>
    /\ failedAt = ""
    /\ epot = NaN
    /\ x = <<>>
    /\ y = <<>>
    /\ log = <<>>

InitAvg ==
    /\ rdata \in SeqsUpTo(0..MaxVal, MaxLen)
    /\ rB \in 1..MaxB
    /\ rdone = {}
    /\ rfull = NoResult
    /\ rcut = NoResult
    /\ IdleDriver

\* compute_average(rdata, label, rB)
CallFull ==
    /\ "full" \notin rdone
    /\ rfull' = compute_average(Floats(rdata), rB)
    /\ rdone' = rdone \cup {"full"}
    /\ UNCHANGED <<rdata, rB, rcut, driverVars>>

\* compute_average on the sequence already cut to a multiple of rB
CallCut ==
    /\ "cut" \notin rdone
    /\ rcut' = compute_average(Floats(Truncated(rdata, rB)), rB)
    /\ rdone' = rdone \cup {"cut"}
    /\ UNCHANGED <<rdata, rB, rfull, driverVars>>

NextAvg ==
    \/ CallFull
    \/ CallCut

SpecAvg == InitAvg /\ [][NextAvg]_vars

(***************************************************************************)
(* Vocabulary of the properties.                                           *)
(***************************************************************************)
Range(s) == {s[i] : i \in 1..Len(s)}

IsPrefix(p, q) == Len(p) <= Len(q) /\ SubSeq(q, 1, Len(p)) = p

\* the lines of a text: each line is the tokens before its line break
RECURSIVE SplitLines(_, _)
SplitLines(toks, cur) ==
    IF toks = <<>> THEN (IF cur = <<>> THEN <<>> ELSE <<cur>>)
    ELSE IF Head(toks) = NL THEN <<cur>> \o SplitLines(Tail(toks), <<>>)
    ELSE SplitLines(Tail(toks), Append(cur, Head(toks)))

Lines(toks) == SplitLines(toks, <<>>)

BlankLine == <<>>

\* the row lines of the (time, potential energy) pairs
RowLines(ts, es) == [i \in 1..Len(ts) |-> <<Row(ts[i], es[i])>>]

\* the number of samples the range selects
SelectedCount == Len(Selected("TIME"))

\* a --range bound that lies beyond the end of the arrays of n samples
OutOfBounds(r, n) == r[1] > n \/ r[2] > n

Summaries == {i \in 1..Len(stdout) : stdout[i].vals # <<>>}

\* the position of a step in the order the steps are written in
Rank(step) ==
    CASE step = "open" -> 1
      [] step = "meta" -> 2
      [] step = "temp" -> 3
      [] step = "press" -> 4
      [] step = "epot" -> 5
      [] step = "plot" -> 6
      [] step = "dump" -> 7
      [] step = "overlay" -> 8
      [] step = "show" -> 9
      [] step = "close" -> 10

(***************************************************************************)
(* C1  Truncation law.  For a block count B with 2 <= B <= N that does not *)
(* divide N, compute_average returns for the full sequence the pair it     *)
(* returns for the sequence cut to its first floor(N/B)*B samples.         *)
(***************************************************************************)
C1_TruncationLaw ==
    (/\ rdone = {"full", "cut"}
     /\ 2 <= rB
     /\ rB <= Len(rdata)
     /\ Len(rdata) % rB # 0)
    => rfull = rcut

\* <<0, 2, 1>> in 2 blocks: the trailing 1 is dropped, mean 1, err^2 1
C1_Witness ==
    /\ rdone = {"full", "cut"}
    /\ rdata = <<0, 2, 1>>
    /\ rB = 2
    /\ rfull = [avg |-> <<1, 1>>, err2 |-> <<1, 1>>]

(***************************************************************************)
(* C2  Degenerate block count is an error.  When the block count is        *)
(* greater than or equal to the number of samples handed to                *)
(* compute_average, the run ends in an error: no summary line is printed   *)
(* and the run does not go on past the first reduction.                    *)
(***************************************************************************)
C2_DegenerateBlockCountIsError ==
    DefaultNBlocks >= SelectedCount
    => /\ Summaries = {}
       /\ Range(steps) \subseteq {"open", "meta"}

C4_OutOfBoundsRangeRejected ==
    (args.range # <<>> /\ OutOfBounds(args.range, env.N))
    => /\ Range(steps) \subseteq {"open", "meta"}
       /\ pc # "done"

(***************************************************************************)
(* C5  Dump segment content.  As claimed: a successful run with --dump     *)
(* adds the header line, one row line per selected (TIME, EPOT) pair, and  *)
(* ONE blank line.                                                         *)
(***************************************************************************)
C5_SegmentEndsWithOneBlankLine ==
    (pc = "done" /\ args.dump)
    => Lines(Segment) = <<<<Header>>>>
                        \o RowLines(Selected("TIME"), Selected("EPOT"))
                        \o <<BlankLine>>

(***************************************************************************)
(* C5, amended.  A successful run with --dump adds the header line, one    *)
(* row line per selected (TIME, EPOT) pair in order (the pairs given to    *)
(* the first plot call, not the mean overlay), and TWO blank lines, with   *)
(* and without --no-plot.                                                  *)
(***************************************************************************)
C5_SegmentEndsWithTwoBlankLines ==
    (pc = "done" /\ args.dump)
    => Lines(Segment) = <<<<Header>>>>
                        \o RowLines(Selected("TIME"), Selected("EPOT"))
                        \o <<BlankLine, BlankLine>>

\* a plotting run that appended at least two rows to an existing file
C5_Witness ==
    /\ pc = "done"
    /\ args.dump
    /\ ~args.noPlot
    /\ SelectedCount >= 2
    /\ dumpAtStart.content # <<>>
    /\ Len(Lines(Segment)) = SelectedCount + 3
    /\ "overlay" \in Range(steps)

(***************************************************************************)
(* C6  Dump is append-only across runs.  No step shortens or rewrites what *)
(* the dump file holds; each finished run found the file as the run before *)
(* left it, and a successful --dump run left it with its own segment added *)
(* at the end.                                                             *)
(***************************************************************************)
Finished == IF Ended THEN Append(log, Record) ELSE log

SegmentOf(a) ==
    LET r == EvalRange(a)
        ts == Slice(Dataset("TIME", env), r[1], r[2])
        es == Slice(Dataset("EPOT", env), r[1], r[2])
    IN  <<Header, NL>> \o Flatten([i \in 1..Len(ts) |-> <<Row(ts[i], es[i]), NL>>])
        \o <<NL, NL>>

C6_SegmentsInRunOrder ==
    \A k \in 1..Len(Finished) :
        LET r == Finished[k]
        IN  /\ k > 1 => r.before = Finished[k - 1].after
            /\ IsPrefix(r.before, r.after)
            /\ (r.args.dump /\ r.outcome = "done")
               => r.after = r.before \o SegmentOf(r.args)

C6_DumpIsAppendOnly ==
    /\ [][/\ IsPrefix(dumpFile.content, dumpFile'.content)
          /\ dumpFile.exists => dumpFile'.exists]_vars
    /\ []C6_SegmentsInRunOrder

\* two successful --dump runs after one another on a file that had content
C6_Witness ==
    /\ Len(log) = 1
    /\ pc = "done"
    /\ args.dump
    /\ log[1].args.dump
    /\ log[1].outcome = "done"
    /\ log[1].before # <<>>
    /\ Len(log[1].segment) > 4
    /\ Len(Segment) > 4
    /\ dumpFile.content = log[1].before \o log[1].segment \o Segment

(***************************************************************************)
(* C7  --no-plot changes only plotting.  A run with --no-plot makes no     *)
(* pylab call and never waits in show(); its printed lines and its dump    *)
(* segment are those of the run with the same input, --range and --dump    *)
(* made without --no-plot.                                                 *)
(***************************************************************************)
C7_NoPlotChangesOnlyPlotting ==
    /\ args.noPlot => (plotCalls = <<>> /\ pc # "showing")
    /\ \A i, j \in 1..Len(Finished) :
         LET q == Finished[i]
             p == Finished[j]
         IN  (/\ q.args.noPlot
              /\ ~p.args.noPlot
              /\ q.args.range = p.args.range
              /\ q.args.dump = p.args.dump)
             => /\ q.plotOps = <<>>
                /\ q.stdout = p.stdout
                /\ q.segment = p.segment

\* a --no-plot run followed by the same run with plotting, both dumping
C7_Witness ==
    /\ Len(log) = 1
    /\ pc = "done"
    /\ log[1].outcome = "done"
    /\ log[1].args.noPlot
    /\ ~args.noPlot
    /\ args.dump
    /\ log[1].args.dump
    /\ log[1].args.range = args.range
    /\ Len(stdout) = 7
    /\ Len(Segment) > 4
    /\ "show" \in Range(Ops(plotCalls))

(***************************************************************************)
(* C8  Input-file lifecycle.  The input file is open during every read and *)
(* released when the run ends, normally or by a failure; the dump file is  *)
(* open only around its write and never while show() blocks.               *)
(***************************************************************************)
C8_OpenDuringReads ==
    pc \in {"meta", "temp", "press", "epot", "series"} => h5open

C8_DumpOpenOnlyAroundWrite ==
    /\ dumpOpen => pc \in {"dump_write", "dump_close"}
    /\ pc = "showing" => ~dumpOpen

C8_InputFileLifecycle ==
    /\ C8_OpenDuringReads
    /\ Ended => ~h5open
    /\ C8_DumpOpenOnlyAroundWrite

(***************************************************************************)
(* C10  Abort ordering.  The steps run in the order open, metadata, TEMP,  *)
(* PRESS, EPOT, plot series, dump, mean overlay, show, close; a step that  *)
(* fails is the last thing the run does; and when a read or a reduction    *)
(* fails, the dump file is left as it was and show() is not called.        *)
(***************************************************************************)
C10_AbortOrdering ==
    /\ \A i, j \in 1..Len(steps) : i < j => Rank(steps[i]) < Rank(steps[j])
    /\ failedAt # "" =>
         /\ pc = "aborted"
         /\ \A i \in 1..Len(steps) : Rank(steps[i]) < Rank(failedAt)
    /\ failedAt \in {"open", "meta", "temp", "press", "epot", "plot"} =>
         /\ dumpFile = dumpAtStart
         /\ "dump" \notin Range(steps)
         /\ "show" \notin Range(Ops(plotCalls))
    /\ pc = "done" =>
         /\ {"open", "meta", "temp", "press", "epot", "close"} \subseteq Range(steps)
         /\ "dump" \in Range(steps) <=> args.dump
         /\ {"plot", "overlay", "show"} \subseteq Range(steps) <=> ~args.noPlot

\* the EPOT reduction fails in a run that was to dump and to plot
C10_Witness ==
    /\ pc = "aborted"
    /\ failedAt = "epot"
    /\ args.dump
    /\ ~args.noPlot
    /\ steps = <<"open", "meta", "temp", "press">>
    /\ Len(stdout) = 6
    /\ dumpFile = dumpAtStart

=============================================================================
